---------------------------- MODULE Spec2Model ----------------------------
(***************************************************************************)
(* Model of prof-research-tool.  From src/openalex_core.py: the retrying   *)
(* request executor make_api_request, the ORCID enricher enrich_with_orcid *)
(* with its process-wide cache, the institution resolver                   *)
(* get_institution_id, the work-centric author search                      *)
(* find_authors_by_works, the direct author search find_authors_direct,    *)
(* their combination find_authors and the orchestrator                     *)
(* find_researchers_with_api.  From src/vertiv_ui_streamlit.py: the        *)
(* "Run Discovery" handler with its four match-mode combinations.          *)
(*                                                                         *)
(* Time is counted in ticks: one second is JitterSteps ticks, so the       *)
(* jitter random.uniform(0, 1) is one of 0 .. JitterSteps-1 ticks.         *)
(* Each component has its own specification (Spec, SpecOrcid, SpecInst,    *)
(* SpecWorks, SpecFind, SpecOrch, SpecUi); the variables of the other      *)
(* components stay at their idle values, and what a component gets from    *)
(* the one it calls is drawn from the values that this one can give.       *)
(* SpecFind runs find_authors_by_works and find_authors_direct themselves. *)
(***************************************************************************)
EXTENDS Integers, Sequences, FiniteSets, TLC

VARIABLES
    \* ---- make_api_request ----
    pc,             \* "idle", "backoff", "request", "returned", "raised"
    max_retries,    \* the max_retries argument of the running call
    attempt,        \* the loop variable of `for attempt in range(max_retries)`
    backoff,        \* ticks slept by the backoff of the current attempt
    slept,          \* ticks slept by time.sleep since the call started
    responses,      \* what requests.get produced, one entry per GET issued
    result,         \* the value returned (None or the parsed document)
    \* ---- enrich_with_orcid ----
    orcid_cache,    \* the module-level dict orcid_cache
    calls,          \* history of the enrich_with_orcid calls made so far
    \* ---- get_institution_id ----
    ipc,            \* "idle", "searching", "returned", "raised"
    institution_name,
    termIdx,        \* index in search_terms of the next term to search
    searches,       \* one entry per make_api_request call: the term and the data
    institution_id, \* the value returned
    \* ---- find_authors_by_works ----
    wpc,            \* "idle", "scanning", "details", "returned"
    registry_up,    \* whether the registry answers during this call
    detail_mode,    \* which detail lookups succeed during this call
    cursor,         \* the number of loop iterations done in the running loop
    works,          \* what the works search gave: None or a document with results
    authors_dict,   \* the dict authors_dict, as the list of its values in insertion order
    detail_lookups, \* the author ids of the detail requests, in order
    author_details, \* the list returned
    enrich_calls,   \* the enrich_with_orcid calls of the two strategies, in order
    first_seen,     \* authors_dict as it was when the detail pass started
    \* ---- find_authors_direct and find_authors ----
    fpc,            \* "by_works", "direct", "merge", "returned"
    direct,         \* what the authors search gave, once Strategy B was called
    direct_authors, \* the list built and returned by find_authors_direct
    found,          \* the list returned by find_authors
    \* ---- find_researchers_with_api ----
    opc,            \* "idle", "resolving", "discovering", "returned", "raised"
    universities,   \* the argument universities
    keywords,       \* the argument keywords
    resolutions,    \* what get_institution_id returned, one entry per name handled
    institution_data,  \* the dict institution_data, as its items in insertion order
    inst_pos,       \* the position of the outer loop in institution_data.items()
    kw_pos,         \* the number of keywords done for the current institution
    invocations,    \* the find_authors calls made: arguments and list returned
    all_found_authors, \* the list all_found_authors
    df_unique,      \* the value returned: None or a table
    \* ---- the "Run Discovery" handler of vertiv_ui_streamlit.py ----
    upc,            \* "idle", "calling", "combined", "results", "no_results", "crashed"
    uni_match_mode, \* "OR" or "AND"
    kw_match_mode,  \* "OR" or "AND"
    ui_universities,   \* the list universities of the script
    ui_keywords,    \* the list keywords of the script
    ui_calls,       \* the find_researchers_with_api calls made: arguments and result
    df_result,      \* the variable df_result: None or a table
    error_shown,    \* whether st.error has been called (line 86)
    shown           \* the rows given to st.dataframe

execVars == <<pc, max_retries, attempt, backoff, slept, responses, result>>
orcidVars == <<orcid_cache, calls>>
instVars == <<ipc, institution_name, termIdx, searches, institution_id>>
scanVars ==
    <<wpc, registry_up, detail_mode, cursor, works, authors_dict, detail_lookups,
      author_details, first_seen>>
worksVars == <<scanVars, enrich_calls>>
findVars == <<fpc, direct, direct_authors, found>>
orchVars ==
    <<opc, universities, keywords, resolutions, institution_data, inst_pos, kw_pos,
      invocations, all_found_authors, df_unique>>
uiVars ==
    <<upc, uni_match_mode, kw_match_mode, ui_universities, ui_keywords, ui_calls,
      df_result, error_shown, shown>>
outerVars == <<orchVars, uiVars>>
callerVars == <<findVars, outerVars>>
vars == <<execVars, orcidVars, instVars, worksVars, callerVars>>

\* Python's None.
None == "None"

\* ------------------------------------------------------------------------
\* Bounds of the model
\* ------------------------------------------------------------------------

\* Ticks per second: the resolution of the jitter.
JitterSteps == 2

\* The number of enrich_with_orcid calls of one run.
MaxCalls == 3

\* The longest institution name, in symbols, and the longest results page.
MaxNameLen == 3
MaxPageLen == 2

\* The largest author id of a works page: more authors than the detail
\* pass of find_authors_by_works looks up.
MaxAuthors == 21

\* ------------------------------------------------------------------------
\* make_api_request
\* ------------------------------------------------------------------------

\* max_retries: int = 5
DefaultMaxRetries == 5

\* response.headers.get('Retry-After', 60): the default when the header is absent.
DefaultRetryAfter == 60

\* time.sleep(5) after a 403.
ForbiddenSleep == 5

\* time.sleep(2) after a network error that was not the last attempt.
NetworkErrorSleep == 2

Seconds(s) == s * JitterSteps

RECURSIVE Pow2(_)
Pow2(n) == IF n = 0 THEN 1 ELSE 2 * Pow2(n - 1)

\* Status 0 stands for requests.get raising a RequestException
\* (timeout, connection error): there is no response object.
NetworkError == 0

\* A Retry-After header is absent or a text; texts are sequences of characters.
Absent == <<"absent">>
Digits == {"0", "1", "2", "3", "4", "5", "6", "7", "8", "9"}
DigitValue(c) ==
    CASE c = "0" -> 0 [] c = "1" -> 1 [] c = "2" -> 2 [] c = "3" -> 3
      [] c = "4" -> 4 [] c = "5" -> 5 [] c = "6" -> 6 [] c = "7" -> 7
      [] c = "8" -> 8 [] c = "9" -> 9

RetryAfterHeaders == {Absent, <<"1">>, <<"-", "1">>, <<"W", "e", "d">>}

\* The 200 bodies: a JSON document, or text that is no JSON.
Bodies == {[json |-> TRUE, doc |-> "doc"], [json |-> FALSE, doc |-> "<html>"]}
NoBody == [json |-> FALSE, doc |-> ""]

\* What one requests.get can produce.
Outcomes ==
    {[status |-> s, retryAfter |-> Absent, body |-> NoBody] :
        s \in {403, 404, 500, NetworkError}}
    \cup {[status |-> 429, retryAfter |-> h, body |-> NoBody] : h \in RetryAfterHeaders}
    \cup {[status |-> 200, retryAfter |-> Absent, body |-> b] : b \in Bodies}

\* int(text) of Python for a text of digits with an optional minus sign;
\* on any other text int() raises ValueError.
IsIntText(t) ==
    LET ds == IF t # <<>> /\ t[1] = "-" THEN Tail(t) ELSE t
    IN ds # <<>> /\ \A i \in 1..Len(ds) : ds[i] \in Digits

RECURSIVE DecimalValue(_)
DecimalValue(t) ==
    IF t = <<>> THEN 0
    ELSE 10 * DecimalValue(SubSeq(t, 1, Len(t) - 1)) + DigitValue(t[Len(t)])

IntOf(t) == IF t[1] = "-" THEN 0 - DecimalValue(Tail(t)) ELSE DecimalValue(t)

\* retry_after = int(response.headers.get('Retry-After', 60))
RetryAfter(h) == IF h = Absent THEN DefaultRetryAfter ELSE IntOf(h)

\* Line 33 raises ValueError when the header is no integer text, and
\* time.sleep(retry_after) on line 35 raises ValueError when it is negative.
RetryAfterRaises(h) == h # Absent /\ (~IsIntText(h) \/ IntOf(h) < 0)

\* delay = (2 ** attempt) + random.uniform(0, 1) when attempt > 0, in ticks;
\* no sleep at all for attempt 0.
BackoffNoJitterBase(n, jitter) == IF n > 0 THEN Seconds(2 * n) + jitter ELSE 0
BackoffSkipped(n, jitter) == 0
BackoffDelay(n, jitter) == IF n > 0 THEN Seconds(Pow2(n)) + jitter ELSE 0

\* What the if/elif chain does with a response (or with the RequestException):
\*   "rate_limited"  sleep Retry-After, continue
\*   "success"       return response.json()
\*   "forbidden"     sleep 5, continue
\*   "not_found"     return None
\*   "other"         print, fall through to the next iteration
\*   "exception"     the except branch
PolicyRetries404(status) ==
    CASE status = NetworkError -> "exception"
      [] status = 429 -> "rate_limited"
      [] status = 200 -> "success"
      [] status = 403 -> "forbidden"
      [] OTHER -> "other"
Policy(status) ==
    CASE status = NetworkError -> "exception"
      [] status = 429 -> "rate_limited"
      [] status = 200 -> "success"
      [] status = 403 -> "forbidden"
      [] status = 404 -> "not_found"
      [] OTHER -> "other"

\* The loop variable after `continue` or after falling off the end of the body:
\* the for loop takes the next element of range(max_retries) whatever the status.
NextAttemptSame429(a, status) == IF status = 429 THEN a ELSE a + 1
NextAttempt(a, status) == a + 1

ExecIdle ==
    /\ pc = "idle"
    /\ max_retries = 0
    /\ attempt = 0
    /\ backoff = 0
    /\ slept = 0
    /\ responses = <<>>
    /\ result = None

\* The call make_api_request(url, headers, max_retries): callers pass the default.
Call ==
    /\ pc = "idle"
    /\ \E m \in 1..DefaultMaxRetries : max_retries' = m
    /\ pc' = "backoff"
    /\ UNCHANGED <<attempt, backoff, slept, responses, result>>

\* Lines 25-28: the sleep before the request of this attempt.
Backoff ==
    /\ pc = "backoff"
    /\ \E jitter \in 0..(JitterSteps - 1) :
          /\ backoff' = BackoffDelay(attempt, jitter)
          /\ slept' = slept + BackoffDelay(attempt, jitter)
    /\ pc' = "request"
    /\ UNCHANGED <<max_retries, attempt, responses, result>>

\* The end of one loop iteration that neither returned nor raised, after
\* sleeping `pause` ticks: next attempt, or `return None` after the loop.
Continue(o, pause) ==
    /\ responses' = Append(responses, o @@ [pause |-> pause])
    /\ slept' = slept + pause
    /\ attempt' = NextAttempt(attempt, o.status)
    /\ backoff' = backoff
    /\ IF NextAttempt(attempt, o.status) < max_retries
         THEN pc' = "backoff" /\ result' = result
         ELSE pc' = "returned" /\ result' = None

Return(o, value) ==
    /\ responses' = Append(responses, o @@ [pause |-> 0])
    /\ pc' = "returned"
    /\ result' = value
    /\ UNCHANGED <<attempt, backoff, slept>>

\* An exception that is no RequestException leaves make_api_request.
Raise(o) ==
    /\ responses' = Append(responses, o @@ [pause |-> 0])
    /\ pc' = "raised"
    /\ UNCHANGED <<attempt, backoff, slept, result>>

\* The except branch, lines 54-59.
Except(o) ==
    IF attempt = max_retries - 1
      THEN Return(o, None)
      ELSE Continue(o, Seconds(NetworkErrorSleep))

\* Lines 30-59: requests.get and what is done with its outcome.
Request ==
    /\ pc = "request"
    /\ \E o \in Outcomes :
          CASE Policy(o.status) = "exception" -> Except(o)
            [] Policy(o.status) = "rate_limited" ->
                  IF RetryAfterRaises(o.retryAfter) THEN Raise(o)
                  ELSE Continue(o, Seconds(RetryAfter(o.retryAfter)))
            [] Policy(o.status) = "success" ->
                  IF o.body.json THEN Return(o, o.body.doc)
                  ELSE
                     \* response.json() raises: requests >= 2.27 raises its own
                     \* JSONDecodeError, a RequestException, older ones a plain
                     \* ValueError that leaves the function.
                     \/ Except(o)
                     \/ Raise(o)
            [] Policy(o.status) = "forbidden" -> Continue(o, Seconds(ForbiddenSleep))
            [] Policy(o.status) = "not_found" -> Return(o, None)
            [] OTHER -> Continue(o, 0)
    /\ UNCHANGED max_retries

OrcidIdle == orcid_cache = <<>> /\ calls = <<>>
InstIdle ==
    /\ ipc = "idle"
    /\ institution_name = <<>>
    /\ termIdx = 0
    /\ searches = <<>>
    /\ institution_id = None
WorksIdle ==
    /\ wpc = "idle"
    /\ registry_up = FALSE
    /\ detail_mode = "none"
    /\ cursor = 0
    /\ works = [kind |-> "none", results |-> <<>>]
    /\ authors_dict = <<>>
    /\ detail_lookups = <<>>
    /\ author_details = <<>>
    /\ enrich_calls = <<>>
    /\ first_seen = <<>>
FindIdle ==
    /\ fpc = "by_works"
    /\ direct = [kind |-> "not_called", results |-> <<>>]
    /\ direct_authors = <<>>
    /\ found = <<>>

OrchIdle ==
    /\ opc = "idle"
    /\ universities = <<>>
    /\ keywords = <<>>
    /\ resolutions = <<>>
    /\ institution_data = <<>>
    /\ inst_pos = 0
    /\ kw_pos = 0
    /\ invocations = <<>>
    /\ all_found_authors = <<>>
    /\ df_unique = [kind |-> "none", rows |-> <<>>]

UiIdle ==
    /\ upc = "idle"
    /\ uni_match_mode = "OR"
    /\ kw_match_mode = "OR"
    /\ ui_universities = <<>>
    /\ ui_keywords = <<>>
    /\ ui_calls = <<>>
    /\ df_result = [kind |-> "table", rows |-> <<>>]
    /\ error_shown = FALSE
    /\ shown = <<>>

Init ==
    ExecIdle /\ OrcidIdle /\ InstIdle /\ WorksIdle /\ FindIdle /\ OrchIdle /\ UiIdle

Next ==
    \/ Call /\ UNCHANGED <<orcidVars, instVars, worksVars, callerVars>>
    \/ Backoff /\ UNCHANGED <<orcidVars, instVars, worksVars, callerVars>>
    \/ Request /\ UNCHANGED <<orcidVars, instVars, worksVars, callerVars>>

Spec == Init /\ [][Next]_vars

\* ------------------------------------------------------------------------
\* Properties of make_api_request (checked under Spec)
\* ------------------------------------------------------------------------

InLoop == pc \in {"backoff", "request"}
StatusAt(i) == responses[i].status
AllRateLimited == \A i \in 1..Len(responses) : StatusAt(i) = 429

\* C1 (as stated): a 429 response does not use up an attempt, so the attempts
\* used so far are exactly the responses that were not 429.
C1_RateLimitKeepsAttempt ==
    InLoop => attempt = Cardinality({i \in 1..Len(responses) : StatusAt(i) # 429})

\* C1 (amended): every response that does not end the call, a 429 included,
\* uses up one attempt: inside the loop the attempt index is the number of
\* GETs issued, never more than max_retries GETs are issued, and a call whose
\* max_retries responses were all 429 returns None.  The sleep after a 429 is
\* the Retry-After value, 60 s when the header is absent.
C1_RateLimitUsesAttempt ==
    /\ InLoop => attempt = Len(responses) /\ attempt < max_retries
    /\ Len(responses) <= max_retries
    /\ \A i \in 1..Len(responses) :
          /\ (StatusAt(i) = 429 /\ responses[i].retryAfter = Absent)
                => responses[i].pause = 60 * JitterSteps
          /\ (StatusAt(i) = 429 /\ responses[i].retryAfter = <<"1">>)
                => responses[i].pause = 1 * JitterSteps
    /\ (pc = "returned" /\ Len(responses) = max_retries /\ AllRateLimited)
          => result = None

C1_Witness ==
    /\ pc = "returned"
    /\ max_retries = DefaultMaxRetries
    /\ Len(responses) = DefaultMaxRetries
    /\ AllRateLimited
    /\ result = None

\* The server answered 429 once and then 200 with a JSON body.
RateLimitedThenOk ==
    /\ pc = "returned"
    /\ Len(responses) = 2
    /\ StatusAt(1) = 429
    /\ StatusAt(2) = 200
    /\ responses[2].body.json

\* C2 (as stated): after 429 then 200 the 200 payload is returned and the
\* total time slept is exactly the Retry-After value of the 429.
C2_SleepIsRetryAfterOnly ==
    RateLimitedThenOk =>
        /\ result = responses[2].body.doc
        /\ slept = Seconds(RetryAfter(responses[1].retryAfter))

\* C2 (amended): after 429 then 200 the 200 payload is returned and the total
\* time slept is the Retry-After value plus the backoff of attempt 1, which
\* lies in [2, 3) seconds.
C2_SleepIsRetryAfterPlusBackoff ==
    RateLimitedThenOk =>
        /\ result = responses[2].body.doc
        /\ slept = Seconds(RetryAfter(responses[1].retryAfter)) + backoff
        /\ 2 * JitterSteps <= backoff
        /\ backoff < 3 * JitterSteps

C2_Witness == RateLimitedThenOk /\ responses[1].retryAfter = <<"1">>

\* C3: a 404 is terminal: whatever came before, the 404 is the last GET of
\* the call, no sleep follows it, and the call has returned None.
C3_NotFoundIsTerminal ==
    \A i \in 1..Len(responses) :
        StatusAt(i) = 404 =>
            /\ i = Len(responses)
            /\ responses[i].pause = 0
            /\ pc = "returned"
            /\ result = None

C3_Witness ==
    /\ Len(responses) = 3
    /\ StatusAt(1) = 429
    /\ StatusAt(2) = 500
    /\ StatusAt(3) = 404
    /\ pc = "returned"

\* C4 (as stated): make_api_request never raises to its caller.
C4_NeverRaises == pc # "raised"

\* C5: the backoff slept before the request of attempt n is 0 for n = 0 and
\* lies in [2^n, 2^n + 1) seconds for 1 <= n < max_retries.
ExpectedBase == <<2, 4, 8, 16>>
C5_BackoffRange ==
    pc = "request" =>
        /\ attempt < max_retries
        /\ attempt = 0 => backoff = 0
        /\ attempt >= 1 =>
              /\ ExpectedBase[attempt] * JitterSteps <= backoff
              /\ backoff < (ExpectedBase[attempt] + 1) * JitterSteps

C5_Witness ==
    /\ pc = "request"
    /\ attempt = DefaultMaxRetries - 1
    /\ backoff = 16 * JitterSteps + (JitterSteps - 1)

\* The call is over by a return statement.
Returned == pc = "returned"

\* C18 (as stated): whatever the server answers, one call issues at most
\* max_retries GET requests and then returns: in every state the requests
\* issued are at most max_retries, and the call has returned or can take a
\* further step.
C18_ReturnsWithinMaxAttempts ==
    /\ Len(responses) <= max_retries
    /\ Returned \/ ENABLED Next

\* The part of C18 that holds: at most max_retries requests, every attempt
\* uses up one element of range(max_retries), and a call that can take no
\* further step is over, by a return or by the exception of C4.
C18_EndsWithinMaxAttempts ==
    /\ Len(responses) <= max_retries
    /\ InLoop => attempt = Len(responses) /\ attempt < max_retries
    /\ pc \in {"returned", "raised"} \/ ENABLED Next

\* ------------------------------------------------------------------------
\* enrich_with_orcid
\* ------------------------------------------------------------------------

\* A Python dict is the set of its <<key, value>> pairs; d.get(k) is None
\* when the key is missing.
EmptyDict == {}
Get(d, k) == IF \E kv \in d : kv[1] = k THEN (CHOOSE kv \in d : kv[1] = k)[2] ELSE None

OrcidIds == {"0000-0001", "0000-0002"}

\* Registry profiles: person.emails.email[] and
\* activities-summary.employments.employment-summary[].department-name
\* (None or "" when a summary has no department).
Profiles ==
    { [emails |-> <<[email |-> "a@x.org", visibility |-> "LIMITED"],
                    [email |-> "b@x.org", visibility |-> "PUBLIC"],
                    [email |-> "c@x.org", visibility |-> "PUBLIC"]>>,
       departments |-> <<None, "Physics", "Mathematics">>],
      [emails |-> <<[email |-> "c@x.org", visibility |-> "PUBLIC"]>>,
       departments |-> <<"">>],
      [emails |-> <<>>, departments |-> <<>>] }
NoProfile == [emails |-> <<>>, departments |-> <<>>]

\* What the single requests.get of line 73 can produce: a response with a
\* status and a body (well formed or not), or an exception such as a timeout.
RegistryOutcomes ==
    {[kind |-> "response", status |-> 200, wellFormed |-> TRUE, profile |-> p] :
        p \in Profiles}
    \cup {[kind |-> "response", status |-> 200, wellFormed |-> FALSE, profile |-> NoProfile]}
    \cup {[kind |-> "response", status |-> st, wellFormed |-> TRUE, profile |-> NoProfile] :
            st \in {404, 500}}
    \cup {[kind |-> "exception", status |-> 0, wellFormed |-> FALSE, profile |-> NoProfile]}
NoRequest == [kind |-> "none", status |-> 0, wellFormed |-> FALSE, profile |-> NoProfile]

\* Lines 80-85: the first email whose visibility is PUBLIC.
RECURSIVE FirstPublicEmail(_)
FirstPublicEmail(emails) ==
    IF emails = <<>> THEN None
    ELSE IF Head(emails).visibility = "PUBLIC" THEN Head(emails).email
    ELSE FirstPublicEmail(Tail(emails))

\* Lines 88-94: the first department-name that is not empty.
RECURSIVE FirstDepartment(_)
FirstDepartment(departments) ==
    IF departments = <<>> THEN None
    ELSE IF Head(departments) \notin {None, ""} THEN Head(departments)
    ELSE FirstDepartment(Tail(departments))

\* Lines 96-99.
OrcidResult(profile) ==
    { <<"Email", FirstPublicEmail(profile.emails)>>,
      <<"Department", FirstDepartment(profile.departments)>> }

\* Line 64: orcid_id in orcid_cache.
IsCached(cache, id) == id \in DOMAIN cache

\* Line 100: orcid_cache[orcid_id] = result.
StoreDropped(cache, id, res) == cache
Store(cache, id, res) == [k \in DOMAIN cache \cup {id} |-> IF k = id THEN res ELSE cache[k]]

\* Lines 102-108: the failure paths write nothing to the cache.
CacheFailureStored(cache, id) == Store(cache, id, EmptyDict)
CacheAfterFailure(cache, id) == cache

\* The call succeeds when the response is a 200 whose body the lines 77-99 can
\* read; any exception raised there is caught on line 105.
Succeeds(o) == o.kind = "response" /\ o.status = 200 /\ o.wellFormed

Record(id, o, n, value) ==
    calls' = Append(calls, [orcid_id |-> id, outcome |-> o, requests |-> n,
                            returned |-> value, before |-> orcid_cache,
                            after |-> orcid_cache'])

\* Lines 64-65: the cache hit.
EnrichCached ==
    /\ Len(calls) < MaxCalls
    /\ \E id \in OrcidIds :
          /\ IsCached(orcid_cache, id)
          /\ orcid_cache' = orcid_cache
          /\ Record(id, NoRequest, 0, orcid_cache[id])

\* Lines 67-101: one GET to the registry that succeeds.
EnrichSuccess ==
    /\ Len(calls) < MaxCalls
    /\ \E id \in OrcidIds, o \in RegistryOutcomes :
          /\ ~IsCached(orcid_cache, id)
          /\ Succeeds(o)
          /\ orcid_cache' = Store(orcid_cache, id, OrcidResult(o.profile))
          /\ Record(id, o, 1, OrcidResult(o.profile))

\* Lines 67-75 and 102-108: one GET to the registry that fails.
EnrichFailure ==
    /\ Len(calls) < MaxCalls
    /\ \E id \in OrcidIds, o \in RegistryOutcomes :
          /\ ~IsCached(orcid_cache, id)
          /\ ~Succeeds(o)
          /\ orcid_cache' = CacheAfterFailure(orcid_cache, id)
          /\ Record(id, o, 1, EmptyDict)

NextOrcid ==
    \/ EnrichCached /\ UNCHANGED <<execVars, instVars, worksVars, callerVars>>
    \/ EnrichSuccess /\ UNCHANGED <<execVars, instVars, worksVars, callerVars>>
    \/ EnrichFailure /\ UNCHANGED <<execVars, instVars, worksVars, callerVars>>

SpecOrcid == Init /\ [][NextOrcid]_vars

\* ------------------------------------------------------------------------
\* Properties of enrich_with_orcid (checked under SpecOrcid)
\* ------------------------------------------------------------------------

SameId(i, j) == calls[i].orcid_id = calls[j].orcid_id
Stored(i) == calls[i].requests = 1 /\ Succeeds(calls[i].outcome)
Failed(i) == calls[i].requests = 1 /\ ~Succeeds(calls[i].outcome)

\* C6 (as stated): whatever the outcome of the first call for an identifier,
\* the second call for it makes no network request.
C6_SecondCallNeverRequests ==
    \A i, j \in 1..Len(calls) :
        (i < j /\ SameId(i, j)) => calls[j].requests = 0

\* C6 (amended): once a call for an identifier has succeeded, every later call
\* for it makes no network request and returns the result of that call; a
\* call after a failed one is not covered.
C6_CallAfterSuccessIsCached ==
    \A i, j \in 1..Len(calls) :
        (i < j /\ SameId(i, j) /\ Stored(i)) =>
            /\ calls[j].requests = 0
            /\ calls[j].returned = calls[i].returned

C6_Witness ==
    \E i, j \in 1..Len(calls) :
        /\ i < j /\ SameId(i, j) /\ Stored(i)
        /\ calls[j].requests = 0
        /\ Get(calls[j].returned, "Email") = "b@x.org"
        /\ Get(calls[j].returned, "Department") = "Physics"

\* C7: a failed call returns the empty result and leaves the cache as it was,
\* and the next call for the same identifier issues a network request again.
C7_FailureNotCached ==
    \A i \in 1..Len(calls) :
        Failed(i) =>
            /\ calls[i].returned = EmptyDict
            /\ calls[i].after = calls[i].before
            /\ \A j \in (i + 1)..Len(calls) :
                  (SameId(i, j) /\ \A k \in (i + 1)..(j - 1) : ~SameId(i, k))
                      => calls[j].requests = 1

C7_Witness ==
    \E i, j \in 1..Len(calls) :
        /\ i < j /\ SameId(i, j)
        /\ Failed(i)
        /\ calls[i].outcome.kind = "exception"
        /\ calls[i].before # <<>>
        /\ calls[j].requests = 1

\* The call that a step of the enricher has just recorded.
LastCall == calls'[Len(calls')]

\* C19: every step keeps every entry of the cache with its value, and an
\* entry that a step adds is the result of the call of this step, which made
\* one request for this identifier and received a well-formed 200.
C19_CacheOnlyGrows ==
    [][/\ \A id \in DOMAIN orcid_cache :
             id \in DOMAIN orcid_cache' /\ orcid_cache'[id] = orcid_cache[id]
       /\ \A id \in DOMAIN orcid_cache' \ DOMAIN orcid_cache :
             /\ Len(calls') = Len(calls) + 1
             /\ LastCall.orcid_id = id
             /\ LastCall.requests = 1
             /\ LastCall.outcome.kind = "response" /\ LastCall.outcome.status = 200
             /\ orcid_cache'[id] = LastCall.returned]_vars

\* A success for one identifier, then a failure for the other one and a hit
\* for the first: the cache holds the one entry of the first call.
C19_Witness ==
    /\ Len(calls) = 3
    /\ Stored(1) /\ Failed(2) /\ ~SameId(1, 2)
    /\ SameId(1, 3) /\ calls[3].requests = 0
    /\ DOMAIN orcid_cache = {calls[1].orcid_id}
    /\ orcid_cache[calls[1].orcid_id] = calls[1].returned

\* ------------------------------------------------------------------------
\* get_institution_id
\* ------------------------------------------------------------------------

\* Texts are sequences of symbols.  The symbol "U" stands for the word
\* "University" and "u" for its lower-case form "university"; no other symbol
\* shares a letter with that word, so substring tests on symbols agree with
\* substring tests on characters.
Symbols == {"A", "b", " ", "U"}

SeqsUpTo(S, n) == UNION {[1..k -> S] : k \in 0..n}

\* The names given: split()[0] on line 121 needs a name that is not blank.
InstitutionNames ==
    {n \in SeqsUpTo(Symbols, MaxNameLen) : \E i \in 1..Len(n) : n[i] # " "}

\* str.lower()
LowerSymbol(c) ==
    CASE c = "A" -> "a" [] c = "B" -> "b" [] c = "U" -> "u" [] OTHER -> c
Lower(t) == [i \in 1..Len(t) |-> LowerSymbol(t[i])]

\* `a in b` for two texts.
IsSubstring(a, b) ==
    \E i \in 0..(Len(b) - Len(a)) : SubSeq(b, i + 1, i + Len(a)) = a

\* str.strip()
RECURSIVE LStrip(_)
LStrip(t) == IF t # <<>> /\ Head(t) = " " THEN LStrip(Tail(t)) ELSE t
RECURSIVE RStrip(_)
RStrip(t) ==
    IF t # <<>> /\ t[Len(t)] = " " THEN RStrip(SubSeq(t, 1, Len(t) - 1)) ELSE t
Strip(t) == RStrip(LStrip(t))

\* institution_name.replace("University", "")
NotUniversity(c) == c # "U"
RemoveUniversity(t) == SelectSeq(t, NotUniversity)

\* institution_name.split()[0]: the first run of symbols that are no space.
RECURSIVE UpToSpace(_)
UpToSpace(t) ==
    IF t = <<>> \/ Head(t) = " " THEN <<>> ELSE <<Head(t)>> \o UpToSpace(Tail(t))
FirstToken(t) == UpToSpace(LStrip(t))

\* Lines 118-122.
SearchTerms(name) == <<name, Strip(RemoveUniversity(name)), FirstToken(name)>>

\* An institution of a results page: its id, given as id.split('/'), and its
\* display_name.
Candidates ==
    { [id |-> <<"https:", "", "openalex.org", "I1">>, display_name |-> <<"B">>],
      [id |-> <<"I2">>, display_name |-> <<"A", " ", "b">>],
      [id |-> <<"https:", "", "openalex.org", "I3">>, display_name |-> <<"A", " ", "U">>] }

\* What make_api_request gives the resolver: None, a document with a results
\* list (empty or not), or an exception (see RetryAfterRaises).
SearchOutcomes ==
    {[kind |-> "none", results |-> <<>>], [kind |-> "raised", results |-> <<>>]}
    \cup {[kind |-> "data", results |-> page] : page \in SeqsUpTo(Candidates, MaxPageLen)}

\* Line 131: data and data.get('results')
HasResults(data) == data.kind = "data" /\ data.results # <<>>

\* Lines 135 and 140: institution['id'].split('/')[-1] if '/' in institution['id']
\* else institution['id']
ExtractId(id) == IF Len(id) > 1 THEN id[Len(id)] ELSE id[1]

\* Line 134: institution_name.lower() in inst_name or inst_name in
\* institution_name.lower(), with inst_name the lower-cased display_name.
Matches(name, inst) ==
    \/ IsSubstring(Lower(name), Lower(inst.display_name))
    \/ IsSubstring(Lower(inst.display_name), Lower(name))

\* Lines 132-142: the first institution of the page that matches, else the
\* first institution of the page.
PickNoFallback(name, page) ==
    IF \E i \in 1..Len(page) : Matches(name, page[i])
      THEN ExtractId(page[CHOOSE i \in 1..Len(page) :
                            /\ Matches(name, page[i])
                            /\ \A j \in 1..(i - 1) : ~Matches(name, page[j])].id)
      ELSE None
PickFirst(name, page) == ExtractId(page[1].id)
Pick(name, page) ==
    IF \E i \in 1..Len(page) : Matches(name, page[i])
      THEN ExtractId(page[CHOOSE i \in 1..Len(page) :
                            /\ Matches(name, page[i])
                            /\ \A j \in 1..(i - 1) : ~Matches(name, page[j])].id)
      ELSE ExtractId(page[1].id)

\* The call get_institution_id(institution_name), up to line 122.
Resolve ==
    /\ ipc = "idle"
    /\ \E name \in InstitutionNames : institution_name' = name
    /\ ipc' = "searching"
    /\ termIdx' = 1
    /\ UNCHANGED <<searches, institution_id>>

\* Lines 124-145: one iteration of the loop over search_terms, and the
\* return after the loop when this was the last term.
SearchNext ==
    /\ ipc = "searching"
    /\ \E data \in SearchOutcomes :
          LET term == SearchTerms(institution_name)[termIdx] IN
          /\ searches' = Append(searches, [term |-> term, data |-> data])
          /\ IF data.kind = "raised"
               THEN ipc' = "raised" /\ UNCHANGED <<termIdx, institution_id>>
             ELSE IF HasResults(data)
               THEN /\ institution_id' = Pick(institution_name, data.results)
                    /\ ipc' = "returned"
                    /\ UNCHANGED termIdx
             ELSE IF termIdx < Len(SearchTerms(institution_name))
               THEN /\ termIdx' = termIdx + 1
                    /\ UNCHANGED <<ipc, institution_id>>
             ELSE /\ institution_id' = None
                  /\ ipc' = "returned"
                  /\ UNCHANGED termIdx
    /\ UNCHANGED institution_name

NextInst ==
    \/ Resolve /\ UNCHANGED <<execVars, orcidVars, worksVars, callerVars>>
    \/ SearchNext /\ UNCHANGED <<execVars, orcidVars, worksVars, callerVars>>

SpecInst == Init /\ [][NextInst]_vars


\* ------------------------------------------------------------------------
\* Properties of get_institution_id (checked under SpecInst)
\* ------------------------------------------------------------------------

NoResults(i) == searches[i].data.kind = "none" \/ searches[i].data.results = <<>>
PageAt(i) == searches[i].data.results
PageIds(i) == {ExtractId(PageAt(i)[k].id) : k \in 1..Len(PageAt(i))}
Spaces(t) == \A i \in 1..Len(t) : t[i] = " "

\* t is the name with every "University" removed and the outer spaces stripped.
IsNameWithoutUniversity(t, name) ==
    /\ \A i \in 1..Len(t) : t[i] # "U"
    /\ t = <<>> \/ (t[1] # " " /\ t[Len(t)] # " ")
    /\ \E lead, trail \in 0..Len(name) :
          /\ lead + trail <= Len(name)
          /\ Spaces(SelectSeq(SubSeq(name, 1, lead), NotUniversity))
          /\ Spaces(SelectSeq(SubSeq(name, Len(name) - trail + 1, Len(name)), NotUniversity))
          /\ SelectSeq(SubSeq(name, lead + 1, Len(name) - trail), NotUniversity) = t

\* t is the first whitespace-delimited token of the name.
IsFirstTokenOf(t, name) ==
    /\ t # <<>>
    /\ \A i \in 1..Len(t) : t[i] # " "
    /\ \E lead \in 0..Len(name) :
          /\ Spaces(SubSeq(name, 1, lead))
          /\ SubSeq(name, lead + 1, lead + Len(t)) = t
          /\ lead + Len(t) = Len(name) \/ name[lead + Len(t) + 1] = " "

\* C8: the terms are searched in the order (name, name without "University",
\* first token); the search stops at the first term whose page is not empty
\* and returns an identifier of that page, whether or not a candidate matches;
\* None is returned only after all three terms gave no results.
C8_StopsAtFirstPage ==
    /\ Len(searches) <= 3
    /\ Len(searches) >= 1 => searches[1].term = institution_name
    /\ Len(searches) >= 2 => IsNameWithoutUniversity(searches[2].term, institution_name)
    /\ Len(searches) >= 3 => IsFirstTokenOf(searches[3].term, institution_name)
    /\ \A i \in 1..Len(searches) :
          /\ i < Len(searches) => NoResults(i)
          /\ (~NoResults(i) /\ searches[i].data.kind = "data") =>
                /\ ipc = "returned"
                /\ institution_id \in PageIds(i)
    /\ (ipc = "returned" /\ institution_id = None) =>
          /\ Len(searches) = 3
          /\ \A i \in 1..3 : NoResults(i)

\* A page reached through the second term on which no candidate matches.
C8_Witness ==
    /\ ipc = "returned"
    /\ institution_name = <<"b", " ", "U">>
    /\ Len(searches) = 2
    /\ searches[2].term = <<"b">>
    /\ \A k \in 1..Len(PageAt(2)) : ~Matches(institution_name, PageAt(2)[k])
    /\ Len(PageAt(2)) = 2
    /\ institution_id = ExtractId(PageAt(2)[1].id)

\* A candidate qualifies for a query when, ignoring case, its name contains
\* the query or the query contains its name.
Qualifies(query, inst) ==
    \/ IsSubstring(Lower(query), Lower(inst.display_name))
    \/ IsSubstring(Lower(inst.display_name), Lower(query))

\* The identifier of the first candidate of the page that qualifies for the
\* query, and of the first candidate of the page when none does.
FirstQualifying(query, page) ==
    LET hits == {i \in 1..Len(page) : Qualifies(query, page[i])}
    IN IF hits = {} THEN ExtractId(page[1].id)
       ELSE ExtractId(page[CHOOSE i \in hits : \A j \in hits : i <= j].id)

ReturnedFromPage ==
    ipc = "returned" /\ searches # <<>> /\ ~NoResults(Len(searches))

\* C9 (as stated): the identifier returned is that of the first candidate that
\* qualifies for the search term that produced the page, else the first one.
C9_FirstMatchForSearchTerm ==
    ReturnedFromPage =>
        institution_id =
            FirstQualifying(searches[Len(searches)].term, PageAt(Len(searches)))

\* C9 (amended): the identifier returned is that of the first candidate that
\* qualifies for the institution name as given to the resolver, whichever
\* search term produced the page, else the first candidate of the page.
C9_FirstMatchForGivenName ==
    ReturnedFromPage =>
        institution_id = FirstQualifying(institution_name, PageAt(Len(searches)))

\* The second candidate matches the given name and the first does not, on a
\* page produced by the third term.
C9_Witness ==
    /\ ReturnedFromPage
    /\ Len(searches) = 3
    /\ Len(PageAt(3)) = 2
    /\ ~Qualifies(institution_name, PageAt(3)[1])
    /\ Qualifies(institution_name, PageAt(3)[2])
    /\ institution_id = ExtractId(PageAt(3)[2].id)
    /\ institution_id # ExtractId(PageAt(3)[1].id)

\* ------------------------------------------------------------------------
\* find_authors_by_works
\* ------------------------------------------------------------------------

\* list(authors_dict.items())[:20]
DetailLimit == 20

\* An author without an id (author.get('id') is None): ids are 1, 2, ...
NoId == 0

\* The arguments of the call.
Keyword == "cooling"
TargetInstitution == <<"1">>
UniversityName == "Given University"

Min(a, b) == IF a < b THEN a ELSE b

\* The author objects of the works API: every third author has no ORCID, and
\* the others share two registry identifiers.
OrcidOf(i) ==
    CASE i % 3 = 1 -> "0000-0001" [] i % 3 = 2 -> "0000-0002" [] OTHER -> None
AuthorOf(i) == [id |-> i, display_name |-> <<"Author", i>>, orcid |-> OrcidOf(i)]

\* The institutions of an authorship: ids as texts.  Authors with an even id
\* are listed at the target institution I1, the others at I12 only, whose id
\* also contains the text "I1".
InstitutionsOf(i) ==
    IF i % 2 = 0
      THEN <<[id |-> <<"I", "2">>, display_name |-> "Other Institute"],
             [id |-> <<"I", "1">>, display_name |-> "Target University"]>>
      ELSE <<[id |-> <<"I", "1", "2">>, display_name |-> "Twelfth College"]>>

AuthorshipOf(i) == [author |-> AuthorOf(i), institutions |-> InstitutionsOf(i)]

\* The authorships of the authors lo .. hi, in this order.
Authorships(lo, hi) == [k \in 1..(hi - lo + 1) |-> AuthorshipOf(lo + k - 1)]

\* The results pages of the works search: a first work (with a DOI) whose
\* authorships start with an author without id and go on with authors 1 .. a,
\* and a second work (without DOI) with the authors b .. c.
WorksPages ==
    { << [id |-> "https://openalex.org/W1", title |-> "First work", doi |-> "10.1/w1",
          authorships |-> <<AuthorshipOf(NoId)>> \o Authorships(1, a)],
         [id |-> "https://openalex.org/W2", title |-> "Second work", doi |-> None,
          authorships |-> Authorships(b, c)] >> :
        a \in 0..MaxAuthors, b \in {1, 2}, c \in {0, 2, MaxAuthors} }

\* What the works search gives: None, an empty results list, or a page.
WorksData ==
    {[kind |-> "none", results |-> <<>>]}
    \cup {[kind |-> "data", results |-> page] : page \in {<<>>} \cup WorksPages}

\* The registry during the call: up (every GET is a 200 with the profile of
\* the identifier) or down (every GET fails).
ProfileOf(orcid) ==
    IF orcid = "0000-0001"
      THEN [emails |-> <<[email |-> "b@x.org", visibility |-> "PUBLIC"]>>,
            departments |-> <<"Physics">>]
      ELSE [emails |-> <<>>, departments |-> <<>>]

\* enrich_with_orcid(orcid_id) against this registry: the value returned and
\* the cache after the call.
EnrichWith(cache, orcid, up) ==
    IF IsCached(cache, orcid) THEN [returned |-> cache[orcid], cache |-> cache]
    ELSE IF up THEN [returned |-> OrcidResult(ProfileOf(orcid)),
                     cache |-> Store(cache, orcid, OrcidResult(ProfileOf(orcid)))]
    ELSE [returned |-> EmptyDict, cache |-> CacheAfterFailure(cache, orcid)]

\* Lines 169-174: the display name of the first institution of the authorship
\* whose id contains "I" + institution_id, else the university name given.
RECURSIVE AuthorInstitution(_)
AuthorInstitution(institutions) ==
    IF institutions = <<>> THEN UniversityName
    ELSE IF IsSubstring(<<"I">> \o TargetInstitution, Head(institutions).id)
      THEN Head(institutions).display_name
    ELSE AuthorInstitution(Tail(institutions))

\* Lines 176-184.
PaperUrl(work) ==
    IF work.doi # None THEN <<"https://doi.org/", work.doi>>
    ELSE IF work.title # "" THEN <<"https://scholar.google.com/scholar?q=", work.title>>
    ELSE <<"https://openalex.org/works/", work.id>>

\* Lines 189-202.
NewRecord(work, authorship, enriched) ==
    [OpenAlex_ID |-> authorship.author.id,
     Full_Name |-> authorship.author.display_name,
     Institution |-> AuthorInstitution(authorship.institutions),
     Email |-> Get(enriched, "Email"),
     Department |-> Get(enriched, "Department"),
     ORCID |-> authorship.author.orcid,
     Matched_Keyword |-> Keyword,
     Works_Count |-> 0,
     Cited_By_Count |-> 0,
     Recent_Work_Title |-> work.title,
     DOI |-> work.doi,
     Paper_URL |-> PaperUrl(work)]

\* Lines 186-187 and 246-247: enrich_with_orcid(orcid_id) if orcid_id else {}.
\* None and the empty text are falsy.
HasOrcidAlways(orcid) == TRUE
HasOrcid(orcid) == orcid # None /\ orcid # ""

\* The log of the enricher calls of a strategy: a call is made only for an
\* author with a registry identifier, while `collection` does not hold the
\* record under construction yet.
LogEnrich(log, strategy, orcid, collection) ==
    IF HasOrcid(orcid)
      THEN Append(log, [strategy |-> strategy, orcid_id |-> orcid,
                        size |-> Len(collection)])
      ELSE log

\* author_id in authors_dict
InDict(dict, id) == \E k \in 1..Len(dict) : dict[k].OpenAlex_ID = id

\* The iterations of the nested loops of lines 163-164, in order: one
\* [work, authorship] pair per authorship of the page.
RECURSIVE Iterations(_)
Iterations(page) ==
    IF page = <<>> THEN <<>>
    ELSE [k \in 1..Len(Head(page).authorships) |->
             [work |-> Head(page), authorship |-> Head(page).authorships[k]]]
         \o Iterations(Tail(page))

\* What make_api_request gives for the detail of an author: None when the
\* lookups fail, else a document; in mode "partial" the lookups of the odd
\* ids fail and the documents carry no last_known_institution.
DetailModes == {"full", "partial", "none"}
DetailOf(mode, id) ==
    IF mode = "none" \/ (mode = "partial" /\ id % 2 = 1)
      THEN [kind |-> "none", works_count |-> 0, cited_by_count |-> 0,
            last_known_institution |-> None]
      ELSE [kind |-> "data", works_count |-> 10 + id, cited_by_count |-> 100 + id,
            last_known_institution |-> IF mode = "full" THEN "Detail Institute" ELSE None]

\* Lines 210-218: the record after its detail lookup.
WithDetailRebuilt(rec, detail) ==
    [rec EXCEPT !.Email = None, !.Department = None,
                !.Works_Count = detail.works_count,
                !.Cited_By_Count = detail.cited_by_count]
WithDetail(rec, detail) ==
    IF detail.kind = "none" THEN rec
    ELSE [rec EXCEPT
            !.Institution = IF detail.last_known_institution # None
                              THEN detail.last_known_institution ELSE @,
            !.Works_Count = detail.works_count,
            !.Cited_By_Count = detail.cited_by_count]

\* Line 205: list(authors_dict.items())[:20]
FirstItems(dict) == SubSeq(dict, 1, Min(DetailLimit, Len(dict)))

\* Lines 147-162: the call find_authors_by_works(keyword, institution_id,
\* university_name) and its works search.
SearchWorks ==
    /\ wpc = "idle"
    /\ \E data \in WorksData, up \in BOOLEAN, mode \in DetailModes :
          /\ works' = data
          /\ registry_up' = up
          /\ detail_mode' = mode
          /\ wpc' = IF data.kind = "none" \/ data.results = <<>>
                      THEN "returned" ELSE "scanning"
    /\ UNCHANGED <<cursor, authors_dict, detail_lookups, author_details, enrich_calls,
                   first_seen>>
    /\ UNCHANGED orcidVars

\* Lines 164-202: one iteration of the inner loop over the authorships.
ScanAuthorship ==
    /\ wpc = "scanning"
    /\ cursor < Len(Iterations(works.results))
    /\ LET it == Iterations(works.results)[cursor + 1]
           author == it.authorship.author
           e == IF HasOrcid(author.orcid)
                  THEN EnrichWith(orcid_cache, author.orcid, registry_up)
                  ELSE [returned |-> EmptyDict, cache |-> orcid_cache]
       IN IF author.id = NoId \/ InDict(authors_dict, author.id)
            THEN UNCHANGED <<authors_dict, orcid_cache, enrich_calls>>
            ELSE /\ authors_dict' =
                      Append(authors_dict, NewRecord(it.work, it.authorship, e.returned))
                 /\ orcid_cache' = e.cache
                 /\ enrich_calls' =
                      LogEnrich(enrich_calls, "by_works", author.orcid, authors_dict)
    /\ cursor' = cursor + 1
    /\ UNCHANGED <<wpc, registry_up, detail_mode, works, detail_lookups, author_details,
                   first_seen>>
    /\ UNCHANGED calls

\* Line 204: the loops over the works are done, the detail pass starts.
StartDetails ==
    /\ wpc = "scanning"
    /\ cursor = Len(Iterations(works.results))
    /\ wpc' = "details"
    /\ cursor' = 0
    /\ first_seen' = authors_dict
    /\ UNCHANGED <<registry_up, detail_mode, works, authors_dict, detail_lookups,
                   author_details, enrich_calls>>
    /\ UNCHANGED orcidVars

\* Lines 205-220: one iteration of the detail pass.  author_data is the dict
\* stored in authors_dict, so the update shows there as well.
DetailLookup ==
    /\ wpc = "details"
    /\ cursor < Len(FirstItems(authors_dict))
    /\ LET rec == FirstItems(authors_dict)[cursor + 1]
           upd == WithDetail(rec, DetailOf(detail_mode, rec.OpenAlex_ID))
       IN /\ detail_lookups' = Append(detail_lookups, rec.OpenAlex_ID)
          /\ authors_dict' = [authors_dict EXCEPT ![cursor + 1] = upd]
          /\ author_details' = Append(author_details, upd)
    /\ cursor' = cursor + 1
    /\ UNCHANGED <<wpc, registry_up, detail_mode, works, enrich_calls, first_seen>>
    /\ UNCHANGED orcidVars

\* Line 222: return author_details.
ReturnDetails ==
    /\ wpc = "details"
    /\ cursor = Len(FirstItems(authors_dict))
    /\ wpc' = "returned"
    /\ UNCHANGED <<registry_up, detail_mode, cursor, works, authors_dict, detail_lookups,
                   author_details, enrich_calls, first_seen>>
    /\ UNCHANGED orcidVars

NextWorks ==
    \/ SearchWorks /\ UNCHANGED <<execVars, instVars, callerVars>>
    \/ ScanAuthorship /\ UNCHANGED <<execVars, instVars, callerVars>>
    \/ StartDetails /\ UNCHANGED <<execVars, instVars, callerVars>>
    \/ DetailLookup /\ UNCHANGED <<execVars, instVars, callerVars>>
    \/ ReturnDetails /\ UNCHANGED <<execVars, instVars, callerVars>>

SpecWorks == Init /\ [][NextWorks]_vars

\* ------------------------------------------------------------------------
\* Properties of find_authors_by_works (checked under SpecWorks)
\* ------------------------------------------------------------------------

\* The distinct author ids in the authorships of the works returned.
WorkAuthorIds ==
    UNION {{works.results[w].authorships[k].author.id :
               k \in 1..Len(works.results[w].authorships)} :
           w \in 1..Len(works.results)} \ {NoId}

ReturnedIds == {author_details[k].OpenAlex_ID : k \in 1..Len(author_details)}

\* C10 (as stated): Strategy A returns exactly one record for every distinct
\* author id of the works page, however many there are.
C10_OneRecordPerAuthor ==
    wpc = "returned" =>
        /\ ReturnedIds = WorkAuthorIds
        /\ Len(author_details) = Cardinality(WorkAuthorIds)

\* The detail lookup of the author with this id failed.
LookupFailed(id) == DetailOf(detail_mode, id).kind = "none"

\* The fields that a detail lookup must leave alone.
SameCoreFields(r, f) ==
    /\ r.OpenAlex_ID = f.OpenAlex_ID
    /\ r.Full_Name = f.Full_Name
    /\ r.Email = f.Email
    /\ r.Department = f.Department
    /\ r.ORCID = f.ORCID
    /\ r.Matched_Keyword = f.Matched_Keyword
    /\ r.Recent_Work_Title = f.Recent_Work_Title
    /\ r.DOI = f.DOI
    /\ r.Paper_URL = f.Paper_URL

\* C17: the k-th record that the detail pass has handled is the k-th
\* first-seen record with at most institution, works_count and
\* cited_by_count changed; it is that record unchanged when its lookup
\* failed, and it is in the list returned whether the lookup failed or not.
C17_DetailPassFrame ==
    wpc \in {"details", "returned"} =>
        /\ Len(author_details) = Len(detail_lookups)
        /\ \A k \in 1..Len(author_details) :
              /\ author_details[k].OpenAlex_ID = detail_lookups[k]
              /\ SameCoreFields(author_details[k], first_seen[k])
              /\ DOMAIN author_details[k] = DOMAIN first_seen[k]
              /\ LookupFailed(detail_lookups[k]) => author_details[k] = first_seen[k]

\* A call that returned a record whose lookup failed, unchanged, and an
\* enriched record whose lookup gave new counts.
C17_Witness ==
    /\ wpc = "returned"
    /\ \E j, k \in 1..Len(author_details) :
          /\ LookupFailed(author_details[j].OpenAlex_ID)
          /\ author_details[j] = first_seen[j]
          /\ ~LookupFailed(author_details[k].OpenAlex_ID)
          /\ author_details[k].Works_Count # first_seen[k].Works_Count
          /\ author_details[k].Cited_By_Count # first_seen[k].Cited_By_Count
          /\ author_details[k].Email # None


\* ------------------------------------------------------------------------
\* find_authors_direct and find_authors
\* ------------------------------------------------------------------------

\* The longest results page of the authors search.
MaxDirect == 3

\* Line 267: if len(authors) < 5.
BackstopBelow == 5

\* A value that `if value` and `value or ...` take as false.
Falsy(v) == v = None \/ v = ""

\* The author objects of the authors search.  The registry identifier is
\* present, null or the empty text; last_known_institution is an object, is
\* missing from the document (the .get default {} applies), or is null.
DirectOrcidOf(i) ==
    CASE i % 4 = 1 -> "0000-0001" [] i % 4 = 2 -> None [] i % 4 = 3 -> ""
      [] OTHER -> "0000-0002"
LastKnownOf(i) ==
    IF i % 5 = 0 THEN [kind |-> "null", display_name |-> None, type |-> None]
    ELSE IF i % 2 = 1
      THEN [kind |-> "object", display_name |-> "Last Known Institute",
            type |-> "education"]
    ELSE [kind |-> "missing", display_name |-> None, type |-> None]
DirectAuthorOf(i) ==
    [id |-> i, display_name |-> <<"Author", i>>, orcid |-> DirectOrcidOf(i),
     last_known_institution |-> LastKnownOf(i),
     works_count |-> 10 + i, cited_by_count |-> 100 + i]

\* The results pages of the authors search: the authors lo .. lo + n - 1.  A
\* page lists an author once.
DirectPages ==
    {[k \in 1..n |-> DirectAuthorOf(lo + k - 1)] : lo \in {1, 3}, n \in 0..MaxDirect}

\* What make_api_request gives for the authors search: None or a document.
DirectData ==
    {[kind |-> "none", results |-> <<>>]}
    \cup {[kind |-> "data", results |-> page] : page \in DirectPages}

\* Lines 242-244: the institution of the record.
DirectInstitution(author) ==
    IF author.last_known_institution.kind = "object"
         /\ ~Falsy(author.last_known_institution.display_name)
      THEN author.last_known_institution.display_name
      ELSE UniversityName

\* Line 254: enriched.get("Department") or last_known_inst.get('type').
\* When the first operand is falsy the second is evaluated, and on a null
\* last_known_institution None.get raises AttributeError.
DepartmentRaises(author, enriched) ==
    /\ Falsy(Get(enriched, "Department"))
    /\ author.last_known_institution.kind = "null"
DirectDepartment(author, enriched) ==
    IF ~Falsy(Get(enriched, "Department")) THEN Get(enriched, "Department")
    ELSE author.last_known_institution.type

\* Lines 249-260.
DirectRecord(author, enriched) ==
    [OpenAlex_ID |-> author.id,
     Full_Name |-> author.display_name,
     Institution |-> DirectInstitution(author),
     Email |-> Get(enriched, "Email"),
     Department |-> DirectDepartment(author, enriched),
     ORCID |-> author.orcid,
     Matched_Keyword |-> Keyword,
     Works_Count |-> author.works_count,
     Cited_By_Count |-> author.cited_by_count,
     Paper_URL |-> None]

\* Line 267.
NeedsBackstopAlways(authors) == TRUE
NeedsBackstop(authors) == Len(authors) < BackstopBelow

\* Lines 270-274: existing_ids is computed once, from the records of
\* Strategy A, and the direct authors whose id is not in it are appended.
RECURSIVE NotExisting(_, _)
NotExisting(existing_ids, authors) ==
    IF authors = <<>> THEN <<>>
    ELSE IF Head(authors).OpenAlex_ID \notin existing_ids
      THEN <<Head(authors)>> \o NotExisting(existing_ids, Tail(authors))
    ELSE NotExisting(existing_ids, Tail(authors))

AppendAll(authors, new) == authors \o new
AppendNotExisting(authors, new) ==
    authors \o NotExisting({authors[k].OpenAlex_ID : k \in 1..Len(authors)}, new)

\* Lines 265-267 and 276: Strategy A gave enough authors, they are returned.
ReturnWorksOnly ==
    /\ fpc = "by_works"
    /\ wpc = "returned"
    /\ ~NeedsBackstop(author_details)
    /\ found' = author_details
    /\ fpc' = "returned"
    /\ UNCHANGED <<direct, direct_authors>>
    /\ UNCHANGED <<scanVars, enrich_calls, orcidVars>>

\* Lines 267-268 and 224-237: the backstop is called and searches authors.
CallDirect ==
    /\ fpc = "by_works"
    /\ wpc = "returned"
    /\ NeedsBackstop(author_details)
    /\ \E data \in DirectData :
          /\ direct' = data
          /\ fpc' = IF data.kind = "none" \/ data.results = <<>> THEN "merge" ELSE "direct"
    /\ UNCHANGED <<direct_authors, found>>
    /\ UNCHANGED <<scanVars, enrich_calls, orcidVars>>

\* Lines 240-260: one iteration of the loop over the authors of the page.
BuildDirect ==
    /\ fpc = "direct"
    /\ Len(direct_authors) < Len(direct.results)
    /\ LET author == direct.results[Len(direct_authors) + 1]
           e == IF HasOrcid(author.orcid)
                  THEN EnrichWith(orcid_cache, author.orcid, registry_up)
                  ELSE [returned |-> EmptyDict, cache |-> orcid_cache]
       IN /\ orcid_cache' = e.cache
          /\ enrich_calls' = LogEnrich(enrich_calls, "direct", author.orcid, direct_authors)
          /\ IF DepartmentRaises(author, e.returned)
               THEN fpc' = "raised" /\ UNCHANGED direct_authors
               ELSE /\ direct_authors' =
                         Append(direct_authors, DirectRecord(author, e.returned))
                    /\ fpc' = fpc
    /\ UNCHANGED <<direct, found>>
    /\ UNCHANGED <<scanVars, calls>>

\* Line 262: return authors.
ReturnDirect ==
    /\ fpc = "direct"
    /\ Len(direct_authors) = Len(direct.results)
    /\ fpc' = "merge"
    /\ UNCHANGED <<direct, direct_authors, found>>
    /\ UNCHANGED <<scanVars, enrich_calls, orcidVars>>

\* Lines 270-276: the merge and the return of find_authors.
Merge ==
    /\ fpc = "merge"
    /\ found' = AppendNotExisting(author_details, direct_authors)
    /\ fpc' = "returned"
    /\ UNCHANGED <<direct, direct_authors>>
    /\ UNCHANGED <<scanVars, enrich_calls, orcidVars>>

NextFind ==
    \/ SearchWorks /\ UNCHANGED <<execVars, instVars, callerVars>>
    \/ ScanAuthorship /\ UNCHANGED <<execVars, instVars, callerVars>>
    \/ StartDetails /\ UNCHANGED <<execVars, instVars, callerVars>>
    \/ DetailLookup /\ UNCHANGED <<execVars, instVars, callerVars>>
    \/ ReturnDetails /\ UNCHANGED <<execVars, instVars, callerVars>>
    \/ ReturnWorksOnly /\ UNCHANGED <<execVars, instVars, outerVars>>
    \/ CallDirect /\ UNCHANGED <<execVars, instVars, outerVars>>
    \/ BuildDirect /\ UNCHANGED <<execVars, instVars, outerVars>>
    \/ ReturnDirect /\ UNCHANGED <<execVars, instVars, outerVars>>
    \/ Merge /\ UNCHANGED <<execVars, instVars, outerVars>>

SpecFind == Init /\ [][NextFind]_vars

\* ------------------------------------------------------------------------
\* Properties of find_authors and of the two strategies (checked under SpecFind)
\* ------------------------------------------------------------------------

BackstopRan == direct.kind # "not_called"
IdsOf(records) == {records[k].OpenAlex_ID : k \in 1..Len(records)}
InList(records, r) == \E k \in 1..Len(records) : records[k] = r

\* C11: find_authors does nothing before Strategy A has returned; Strategy B
\* is called if and only if Strategy A returned fewer than 5 authors; the
\* list returned starts with the records of Strategy A, in their order, and
\* every entry after them is a record of Strategy B.
C11_WorksFirstThenBackstop ==
    /\ (fpc # "by_works" \/ BackstopRan) => wpc = "returned"
    /\ BackstopRan => Len(author_details) < 5
    /\ fpc = "returned" =>
          /\ BackstopRan <=> Len(author_details) < 5
          /\ Len(found) >= Len(author_details)
          /\ SubSeq(found, 1, Len(author_details)) = author_details
          /\ \A k \in (Len(author_details) + 1)..Len(found) :
                InList(direct_authors, found[k])

\* Strategy A returned four authors and the backstop added a fifth.
C11_Witness ==
    /\ fpc = "returned"
    /\ BackstopRan
    /\ Len(author_details) = 4
    /\ Len(found) = 5
    /\ found[5].Paper_URL = None

CallsAt(strategy, n) ==
    {i \in 1..Len(enrich_calls) :
        enrich_calls[i].strategy = strategy /\ enrich_calls[i].size = n}

\* One call, for the identifier of the record, while the record was not yet
\* in the collection, for every record with an identifier; none for the others.
OneCallPerRecord(strategy, collection) ==
    \A k \in 1..Len(collection) :
        IF collection[k].ORCID \notin {None, ""}
          THEN \E i \in 1..Len(enrich_calls) :
                  /\ CallsAt(strategy, k - 1) = {i}
                  /\ enrich_calls[i].orcid_id = collection[k].ORCID
          ELSE CallsAt(strategy, k - 1) = {}

\* The construction that find_authors_direct left by an exception.
Unfinished(i) ==
    /\ fpc = "raised"
    /\ i = Len(enrich_calls)
    /\ enrich_calls[i].strategy = "direct"
    /\ enrich_calls[i].size = Len(direct_authors)
    /\ enrich_calls[i].orcid_id = direct.results[Len(direct_authors) + 1].orcid
    /\ enrich_calls[i].orcid_id \notin {None, ""}

\* C16: in both strategies every record of an author with a registry
\* identifier has exactly one enricher call, made for this identifier before
\* the record was added, a record of an author without one has none, and
\* there is no other call but the one of a construction left by an exception.
C16_OneEnrichPerRecord ==
    /\ OneCallPerRecord("by_works", authors_dict)
    /\ OneCallPerRecord("direct", direct_authors)
    /\ \A i \in 1..Len(enrich_calls) :
          \/ enrich_calls[i].strategy = "by_works"
                /\ enrich_calls[i].size < Len(authors_dict)
          \/ enrich_calls[i].strategy = "direct"
                /\ enrich_calls[i].size < Len(direct_authors)
          \/ Unfinished(i)

\* Both strategies built records with and without a registry identifier.
C16_Witness ==
    /\ fpc = "returned"
    /\ \E j, k \in 1..Len(authors_dict) :
          authors_dict[j].ORCID = None /\ authors_dict[k].ORCID = "0000-0002"
    /\ \E j, k \in 1..Len(direct_authors) :
          direct_authors[j].ORCID = "" /\ direct_authors[k].ORCID = "0000-0002"
    /\ Len(enrich_calls) >= 4

\* ------------------------------------------------------------------------
\* find_researchers_with_api
\* ------------------------------------------------------------------------

\* The longest list of universities and of keywords.
MaxListLen == 2

UniversityNames == {"MIT", "ETH"}
KeywordNames == {"cooling", "power"}

\* The lists of at most MaxListLen entries: an entry may come twice.
ListsOver(S) == UNION {[1..n -> S] : n \in 0..MaxListLen}

\* What get_institution_id(uni_name) can do: return None, return the id of
\* the institution, or raise (see C4).
IdOfName(name) == IF name = "MIT" THEN "63966007" ELSE "35440088"
ResolverOutcomes(name) ==
    {[kind |-> "returned", id |-> None],
     [kind |-> "returned", id |-> IdOfName(name)],
     [kind |-> "raised", id |-> None]}

\* Line 285: if uni_id.
ResolvedAlways(uni_id) == TRUE
Resolved(uni_id) == uni_id # None /\ uni_id # ""

\* Line 286: institution_data[uni_name] = uni_id.  A key that is already
\* there keeps its place and takes the new value.
Put(data, name, id) ==
    IF \E k \in 1..Len(data) : data[k].name = name
      THEN [k \in 1..Len(data) |->
               IF data[k].name = name THEN [name |-> name, id |-> id] ELSE data[k]]
      ELSE Append(data, [name |-> name, id |-> id])

\* The records that find_authors returns: built by Strategy A (with
\* Recent_Work_Title and DOI) or by Strategy B (without them).
FoundByWorks(id, keyword, uni_name) ==
    [OpenAlex_ID |-> id,
     Full_Name |-> <<"Author", id>>,
     Institution |-> uni_name,
     Email |-> None,
     Department |-> None,
     ORCID |-> None,
     Matched_Keyword |-> keyword,
     Works_Count |-> 10 + id,
     Cited_By_Count |-> 100 + id,
     Recent_Work_Title |-> "First work",
     DOI |-> "10.1/w1",
     Paper_URL |-> "https://doi.org/10.1/w1"]
FoundDirect(id, keyword, uni_name) ==
    [OpenAlex_ID |-> id,
     Full_Name |-> <<"Author", id>>,
     Institution |-> "Last Known Institute",
     Email |-> None,
     Department |-> "education",
     ORCID |-> None,
     Matched_Keyword |-> keyword,
     Works_Count |-> 10 + id,
     Cited_By_Count |-> 100 + id,
     Paper_URL |-> None]

\* What find_authors(keyword, uni_id, uni_name) can do: return a list of
\* records with distinct ids, or raise.
FinderOutcomes(keyword, uni_name) ==
    {[kind |-> "returned", authors |-> l] :
        l \in {<<>>,
               <<FoundByWorks(1, keyword, uni_name), FoundByWorks(2, keyword, uni_name)>>,
               <<FoundByWorks(2, keyword, uni_name), FoundDirect(3, keyword, uni_name)>>}}
    \cup {[kind |-> "raised", authors |-> <<>>]}

\* pd.DataFrame(list of dicts): the columns are the keys of all the dicts, and
\* a row has NaN in the columns that its dict lacks.
NaN == "NaN"
Columns(records) == UNION {DOMAIN records[k] : k \in 1..Len(records)}
DataFrame(records) ==
    [k \in 1..Len(records) |->
        [c \in Columns(records) |->
            IF c \in DOMAIN records[k] THEN records[k][c] ELSE NaN]]

\* df.drop_duplicates(subset=['OpenAlex_ID']).reset_index(drop=True): of the
\* rows with one id the first is kept.
RECURSIVE KeepLast(_)
KeepLast(rows) ==
    IF rows = <<>> THEN <<>>
    ELSE IF \E k \in 2..Len(rows) : rows[k].OpenAlex_ID = rows[1].OpenAlex_ID
      THEN KeepLast(Tail(rows))
    ELSE <<rows[1]>> \o KeepLast(Tail(rows))
RECURSIVE DropDuplicates(_)
DropDuplicates(rows) ==
    IF rows = <<>> THEN <<>>
    ELSE IF \E k \in 1..(Len(rows) - 1) :
               rows[k].OpenAlex_ID = rows[Len(rows)].OpenAlex_ID
      THEN DropDuplicates(SubSeq(rows, 1, Len(rows) - 1))
    ELSE DropDuplicates(SubSeq(rows, 1, Len(rows) - 1)) \o <<rows[Len(rows)]>>

\* Lines 300-308: None when nothing was collected, else the table without
\* duplicates.
ResearchersAlwaysTable(records) ==
    [kind |-> "table", rows |-> DropDuplicates(DataFrame(records))]
Researchers(records) ==
    IF records = <<>> THEN [kind |-> "none", rows |-> <<>>]
    ELSE [kind |-> "table", rows |-> DropDuplicates(DataFrame(records))]

\* Lines 278-281: the call find_researchers_with_api(universities, keywords).
StartRun ==
    /\ opc = "idle"
    /\ \E us \in ListsOver(UniversityNames), ks \in ListsOver(KeywordNames) :
          /\ universities' = us
          /\ keywords' = ks
    /\ opc' = "resolving"
    /\ UNCHANGED <<resolutions, institution_data, inst_pos, kw_pos, invocations,
                   all_found_authors, df_unique>>

\* Lines 283-287: one iteration of the resolution loop.
ResolveOne ==
    /\ opc = "resolving"
    /\ Len(resolutions) < Len(universities)
    /\ LET uni_name == universities[Len(resolutions) + 1]
       IN \E o \in ResolverOutcomes(uni_name) :
             IF o.kind = "raised"
               THEN opc' = "raised" /\ UNCHANGED <<resolutions, institution_data>>
               ELSE /\ resolutions' = Append(resolutions, o.id)
                    /\ institution_data' =
                          IF Resolved(o.id) THEN Put(institution_data, uni_name, o.id)
                          ELSE institution_data
                    /\ opc' = opc
    /\ UNCHANGED <<universities, keywords, inst_pos, kw_pos, invocations,
                   all_found_authors, df_unique>>

\* Line 290: the resolution loop is over, the outer discovery loop starts.
StartDiscovery ==
    /\ opc = "resolving"
    /\ Len(resolutions) = Len(universities)
    /\ opc' = "discovering"
    /\ inst_pos' = 1
    /\ kw_pos' = 0
    /\ UNCHANGED <<universities, keywords, resolutions, institution_data, invocations,
                   all_found_authors, df_unique>>

\* Lines 292-298: one iteration of the inner loop over the keywords.
Discover ==
    /\ opc = "discovering"
    /\ inst_pos <= Len(institution_data)
    /\ kw_pos < Len(keywords)
    /\ LET inst == institution_data[inst_pos]
           keyword == keywords[kw_pos + 1]
       IN \E o \in FinderOutcomes(keyword, inst.name) :
             IF o.kind = "raised"
               THEN /\ opc' = "raised"
                    /\ UNCHANGED <<kw_pos, invocations, all_found_authors>>
               ELSE /\ invocations' =
                          Append(invocations,
                                 [keyword |-> keyword, uni_id |-> inst.id,
                                  uni_name |-> inst.name, returned |-> o.authors])
                    /\ all_found_authors' = all_found_authors \o o.authors
                    /\ kw_pos' = kw_pos + 1
                    /\ opc' = opc
    /\ UNCHANGED <<universities, keywords, resolutions, institution_data, inst_pos,
                   df_unique>>

\* Line 290: the keywords are done for this institution, the next one is taken.
NextInstitution ==
    /\ opc = "discovering"
    /\ inst_pos <= Len(institution_data)
    /\ kw_pos = Len(keywords)
    /\ inst_pos' = inst_pos + 1
    /\ kw_pos' = 0
    /\ UNCHANGED <<opc, universities, keywords, resolutions, institution_data,
                   invocations, all_found_authors, df_unique>>

\* Lines 300-308: the loops are over.
ReturnResearchers ==
    /\ opc = "discovering"
    /\ inst_pos > Len(institution_data)
    /\ df_unique' = Researchers(all_found_authors)
    /\ opc' = "returned"
    /\ UNCHANGED <<universities, keywords, resolutions, institution_data, inst_pos,
                   kw_pos, invocations, all_found_authors>>

NextOrch ==
    \/ StartRun /\ UNCHANGED <<execVars, orcidVars, instVars, worksVars, findVars, uiVars>>
    \/ ResolveOne /\ UNCHANGED <<execVars, orcidVars, instVars, worksVars, findVars, uiVars>>
    \/ StartDiscovery /\ UNCHANGED <<execVars, orcidVars, instVars, worksVars, findVars, uiVars>>
    \/ Discover /\ UNCHANGED <<execVars, orcidVars, instVars, worksVars, findVars, uiVars>>
    \/ NextInstitution /\ UNCHANGED <<execVars, orcidVars, instVars, worksVars, findVars, uiVars>>
    \/ ReturnResearchers /\ UNCHANGED <<execVars, orcidVars, instVars, worksVars, findVars, uiVars>>

SpecOrch == Init /\ [][NextOrch]_vars

\* ------------------------------------------------------------------------
\* Properties of find_researchers_with_api (checked under SpecOrch)
\* ------------------------------------------------------------------------

\* The first find_authors call, in the order of the calls, whose list has this id.
FirstInvocationWith(id) ==
    CHOOSE n \in 1..Len(invocations) :
        /\ id \in IdsOf(invocations[n].returned)
        /\ \A m \in 1..(n - 1) : id \notin IdsOf(invocations[m].returned)

\* The row holds the values of the record in all the columns of the record.
RowOf(row, record) == \A c \in DOMAIN record : row[c] = record[c]

\* The entries of the collection that repeat the id of an earlier entry.
Repeats(records) ==
    {k \in 1..Len(records) :
        \E j \in 1..(k - 1) : records[j].OpenAlex_ID = records[k].OpenAlex_ID}

\* C13: the table returned has exactly one row for every author id collected,
\* this row is the record of the first find_authors call (institutions outer
\* loop, keywords inner loop) that returned the id, and the table has as many
\* rows as the collection has entries less those that repeat an id.
C13_FirstRecordPerId ==
    (opc = "returned" /\ df_unique.kind = "table") =>
        /\ IdsOf(df_unique.rows) = IdsOf(all_found_authors)
        /\ \A j, k \in 1..Len(df_unique.rows) :
              j # k => df_unique.rows[j].OpenAlex_ID # df_unique.rows[k].OpenAlex_ID
        /\ \A k \in 1..Len(df_unique.rows) :
              \E r \in 1..Len(invocations[FirstInvocationWith(
                                 df_unique.rows[k].OpenAlex_ID)].returned) :
                 LET record == invocations[FirstInvocationWith(
                                   df_unique.rows[k].OpenAlex_ID)].returned[r]
                 IN /\ record.OpenAlex_ID = df_unique.rows[k].OpenAlex_ID
                    /\ RowOf(df_unique.rows[k], record)
        /\ Len(df_unique.rows) =
              Len(all_found_authors) - Cardinality(Repeats(all_found_authors))

\* Two calls with different keywords returned author 2; the row of author 2
\* carries the keyword of the earlier call.
C13_Witness ==
    /\ opc = "returned"
    /\ df_unique.kind = "table"
    /\ \E m, n \in 1..Len(invocations) :
          /\ m < n
          /\ 2 \in IdsOf(invocations[m].returned) \cap IdsOf(invocations[n].returned)
          /\ invocations[m].keyword # invocations[n].keyword
          /\ \E k \in 1..Len(df_unique.rows) :
                /\ df_unique.rows[k].OpenAlex_ID = 2
                /\ df_unique.rows[k].Matched_Keyword = invocations[m].keyword
    /\ Cardinality(Repeats(all_found_authors)) = 2

\* The name was resolved by the k-th call of get_institution_id.
ResolvedAt(name, k) == universities[k] = name /\ resolutions[k] # None

\* The first call of get_institution_id that resolved the name.
FirstResolution(name) ==
    CHOOSE k \in 1..Len(resolutions) :
        ResolvedAt(name, k) /\ \A j \in 1..(k - 1) : ~ResolvedAt(name, j)

\* C14: an absent resolution does not end the run: every name of the list is
\* handed to the resolver.  The institutions kept are the names for which a
\* resolution returned an id, each once, in the order of their first
\* resolution.  The n-th find_authors call is the one for the n-th pair of
\* the cross product of the institutions kept with the entries of the
\* keyword list, institutions in the outer loop and keywords in the inner
\* loop, so each pair has exactly one call and an unresolved institution none.
C14_OncePerResolvedPair ==
    opc \in {"discovering", "returned"} =>
        /\ Len(resolutions) = Len(universities)
        /\ \A k \in 1..Len(universities) :
              (\E j \in 1..Len(universities) : ResolvedAt(universities[k], j)) <=>
                  \E i \in 1..Len(institution_data) :
                      institution_data[i].name = universities[k]
        /\ \A i \in 1..Len(institution_data) :
              /\ \E k \in 1..Len(universities) :
                    /\ ResolvedAt(institution_data[i].name, k)
                    /\ resolutions[k] = institution_data[i].id
              /\ \A j \in 1..(i - 1) :
                    /\ institution_data[j].name # institution_data[i].name
                    /\ FirstResolution(institution_data[j].name)
                          < FirstResolution(institution_data[i].name)
        /\ \A n \in 1..Len(invocations) :
              /\ invocations[n].uni_name =
                    institution_data[((n - 1) \div Len(keywords)) + 1].name
              /\ invocations[n].uni_id =
                    institution_data[((n - 1) \div Len(keywords)) + 1].id
              /\ invocations[n].keyword = keywords[((n - 1) % Len(keywords)) + 1]
              /\ invocations[n].uni_id # None
        /\ opc = "returned" =>
              Len(invocations) = Len(institution_data) * Len(keywords)

\* The first institution of two was not resolved and the second was searched
\* for two keywords.
C14_Witness ==
    /\ opc = "returned"
    /\ Len(universities) = 2
    /\ resolutions = <<None, IdOfName(universities[2])>>
    /\ universities[1] # universities[2]
    /\ Len(keywords) = 2
    /\ keywords[1] # keywords[2]
    /\ Len(invocations) = 2
    /\ invocations[1].keyword = keywords[1]
    /\ invocations[2].keyword = keywords[2]

\* C15: the value returned is None exactly when no find_authors call returned
\* a record, and is a table with at least one row otherwise.
C15_NoneIffNothingCollected ==
    opc = "returned" =>
        /\ df_unique.kind = "none" <=>
              \A n \in 1..Len(invocations) : invocations[n].returned = <<>>
        /\ df_unique.kind \in {"none", "table"}
        /\ df_unique.kind = "table" => df_unique.rows # <<>>

\* Four find_authors calls were made and none found an author.
C15_Witness ==
    /\ opc = "returned"
    /\ df_unique.kind = "none"
    /\ Len(invocations) = 4

\* ------------------------------------------------------------------------
\* The "Run Discovery" handler (src/vertiv_ui_streamlit.py, lines 43-168)
\* ------------------------------------------------------------------------

MatchModes == {"OR", "AND"}

\* Lines 43-44: the lines of the text areas, stripped, without the empty ones.
UiLists(names) == {<<>>, <<names[1]>>, names}

\* pd.DataFrame(): the empty table.
EmptyFrame == [kind |-> "table", rows |-> <<>>]

\* The find_researchers_with_api calls of a run, in order: one call with
\* the two lists (OR/OR), one call per university with all the keywords
\* (AND/OR), one call per university and keyword (OR/AND and AND/AND).
CallPlan(um, km, unis, kws) ==
    IF km = "OR" /\ um = "OR"
      THEN <<[universities |-> unis, keywords |-> kws]>>
    ELSE IF km = "OR"
      THEN [i \in 1..Len(unis) |-> [universities |-> <<unis[i]>>, keywords |-> kws]]
    ELSE [n \in 1..(Len(unis) * Len(kws)) |->
             [universities |-> <<unis[((n - 1) \div Len(kws)) + 1]>>,
              keywords |-> <<kws[((n - 1) % Len(kws)) + 1]>>]]

\* A record of Strategy A whose detail lookup gave a last known institution
\* (core lines 210-213): its Institution is that one, whatever the university
\* of the run.
FoundWithDetail(id, keyword, uni_name) ==
    [FoundByWorks(id, keyword, uni_name) EXCEPT !.Institution = "Detail Institute"]

\* What find_researchers_with_api(universities, keywords) can do: return
\* None, return a table with at least one row, or raise.
OrchOutcomes(args) ==
    {[kind |-> "none", rows |-> <<>>]}
    \cup (IF args.universities = <<>> THEN {} ELSE {[kind |-> "raised", rows |-> <<>>]})
    \cup (IF args.universities = <<>> \/ args.keywords = <<>> THEN {}
          ELSE LET uni == args.universities[1]
                   kw == args.keywords[1]
                   last_uni == args.universities[Len(args.universities)]
                   last_kw == args.keywords[Len(args.keywords)]
               IN {Researchers(l) :
                      l \in {<<FoundByWorks(1, kw, uni), FoundByWorks(2, last_kw, last_uni)>>,
                             <<FoundByWorks(2, kw, uni), FoundDirect(3, kw, uni)>>,
                             <<FoundDirect(3, kw, uni)>>,
                             <<FoundWithDetail(4, kw, uni)>>}})

\* [d for d in df_list if d is not None], for the calls lo .. hi.
RECURSIVE Tables(_, _, _)
Tables(made, lo, hi) ==
    IF lo > hi THEN <<>>
    ELSE IF made[lo].result.kind = "none" THEN Tables(made, lo + 1, hi)
    ELSE <<made[lo].result>> \o Tables(made, lo + 1, hi)

\* pd.concat(frames): the rows of the frames in order, over all their columns.
RECURSIVE RowsOf(_)
RowsOf(frames) ==
    IF frames = <<>> THEN <<>> ELSE Head(frames).rows \o RowsOf(Tail(frames))
Concat(frames) == [kind |-> "table", rows |-> DataFrame(RowsOf(frames))]

\* frame.groupby("OpenAlex_ID").filter(lambda x: len(x[column].unique()) == n)
GroupFilter(frame, column, n) ==
    LET Keep(row) ==
          Cardinality({frame.rows[k][column] :
                          k \in {j \in 1..Len(frame.rows) :
                                    frame.rows[j].OpenAlex_ID = row.OpenAlex_ID}}) = n
    IN [kind |-> "table", rows |-> SelectSeq(frame.rows, Keep)]

\* Lines 56-62 and 74-80: for the universities from index i on, the authors
\* of each university found for every keyword.
RECURSIVE AllKeywords(_, _, _, _)
AllKeywords(made, unis, kws, i) ==
    IF i > Len(unis) THEN <<>>
    ELSE LET df_list == Tables(made, (i - 1) * Len(kws) + 1, i * Len(kws))
         IN (IF df_list = <<>> THEN <<>>
             ELSE <<GroupFilter(Concat(df_list), "Matched_Keyword", Len(kws))>>)
            \o AllKeywords(made, unis, kws, i + 1)

\* Lines 52-83: df_result after the try block that ran to its end.
Combined(um, km, unis, kws, made) ==
    IF um = "OR" /\ km = "OR" THEN made[1].result
    ELSE IF um = "OR"
      THEN LET results == AllKeywords(made, unis, kws, 1)
           IN IF results = <<>> THEN EmptyFrame
              ELSE [kind |-> "table", rows |-> DropDuplicates(Concat(results).rows)]
    ELSE LET df_list == IF km = "OR" THEN Tables(made, 1, Len(made))
                        ELSE AllKeywords(made, unis, kws, 1)
         IN IF df_list = <<>> THEN EmptyFrame
            ELSE GroupFilter(Concat(df_list), "Institution", Len(unis))

\* Lines 102-106: the columns that df_result[display_cols] reads, by their
\* names before the renaming of lines 89-97.
DisplayColumns ==
    {"Full_Name", "Institution", "Department", "Email", "Cited_By_Count",
     "Matched_Keyword", "Recent_Work_Title", "DOI", "Paper_URL", "ORCID"}

\* Lines 89-97 and 106: the row shown, under the new column names.
DisplayRow(row) ==
    [Name |-> row.Full_Name,
     Institution |-> row.Institution,
     Department |-> row.Department,
     Email |-> row.Email,
     Cited_By_Count |-> row.Cited_By_Count,
     Keyword |-> row.Matched_Keyword,
     Recent_Work_Title |-> row.Recent_Work_Title,
     DOI |-> row.DOI,
     Paper_URL |-> row.Paper_URL,
     ORCID |-> row.ORCID]

\* Line 99: sort_values(by="Cited_By_Count", ascending=False); the order of
\* rows with equal counts is not fixed by the default sort.
SortedByCitations(rows) ==
    {[k \in 1..Len(rows) |-> rows[p[k]]] : p \in
        {q \in Permutations(1..Len(rows)) :
            \A i, j \in 1..Len(rows) :
                i < j => rows[q[i]].Cited_By_Count >= rows[q[j]].Cited_By_Count}}

\* Lines 46-51: the button is pressed; df_result is the empty table.
RunDiscovery ==
    /\ upc = "idle"
    /\ \E um \in MatchModes, km \in MatchModes,
          us \in UiLists(<<"MIT", "ETH">>), ks \in UiLists(<<"cooling", "power">>) :
          /\ uni_match_mode' = um
          /\ kw_match_mode' = km
          /\ ui_universities' = us
          /\ ui_keywords' = ks
    /\ upc' = "calling"
    /\ UNCHANGED <<ui_calls, df_result, error_shown, shown>>

\* One call of find_researchers_with_api inside the try block.  A call that
\* raises ends the block in the except clause of lines 85-86, with df_result
\* as it was.
CallOrchestrator ==
    /\ upc = "calling"
    /\ LET plan == CallPlan(uni_match_mode, kw_match_mode, ui_universities, ui_keywords)
       IN /\ Len(ui_calls) < Len(plan)
          /\ \E o \in OrchOutcomes(plan[Len(ui_calls) + 1]) :
                IF o.kind = "raised"
                  THEN /\ error_shown' = TRUE
                       /\ upc' = "combined"
                       /\ UNCHANGED ui_calls
                  ELSE /\ ui_calls' =
                             Append(ui_calls, [args |-> plan[Len(ui_calls) + 1],
                                               result |-> o])
                       /\ UNCHANGED <<upc, error_shown>>
    /\ UNCHANGED <<uni_match_mode, kw_match_mode, ui_universities, ui_keywords,
                   df_result, shown>>

\* The try block runs to its end: df_result is what the mode makes of the
\* results of the calls.
Combine ==
    /\ upc = "calling"
    /\ Len(ui_calls) =
          Len(CallPlan(uni_match_mode, kw_match_mode, ui_universities, ui_keywords))
    /\ df_result' =
          Combined(uni_match_mode, kw_match_mode, ui_universities, ui_keywords, ui_calls)
    /\ upc' = "combined"
    /\ UNCHANGED <<uni_match_mode, kw_match_mode, ui_universities, ui_keywords,
                   ui_calls, error_shown, shown>>

\* Lines 88-168, outside the try block.  None has no attribute `empty`, and
\* df_result[display_cols] raises KeyError for a column that no row has:
\* both exceptions leave the script.
Render ==
    /\ upc = "combined"
    /\ IF df_result.kind = "none"
         THEN upc' = "crashed" /\ UNCHANGED shown
       ELSE IF df_result.rows = <<>>
         THEN upc' = "no_results" /\ UNCHANGED shown
       ELSE IF ~(DisplayColumns \subseteq Columns(df_result.rows))
         THEN upc' = "crashed" /\ UNCHANGED shown
       ELSE /\ upc' = "results"
            /\ \E rows \in SortedByCitations(df_result.rows) :
                  shown' = [k \in 1..Len(rows) |-> DisplayRow(rows[k])]
    /\ UNCHANGED <<uni_match_mode, kw_match_mode, ui_universities, ui_keywords,
                   ui_calls, df_result, error_shown>>

NextUi ==
    \/ RunDiscovery /\ UNCHANGED <<execVars, orcidVars, instVars, worksVars, findVars, orchVars>>
    \/ CallOrchestrator /\ UNCHANGED <<execVars, orcidVars, instVars, worksVars, findVars, orchVars>>
    \/ Combine /\ UNCHANGED <<execVars, orcidVars, instVars, worksVars, findVars, orchVars>>
    \/ Render /\ UNCHANGED <<execVars, orcidVars, instVars, worksVars, findVars, orchVars>>

SpecUi == Init /\ [][NextUi]_vars

\* ------------------------------------------------------------------------
\* Properties of the "Run Discovery" handler (checked under SpecUi)
\* ------------------------------------------------------------------------

\* The run made all the calls of its mode and none of them found an author.
FoundNothing ==
    /\ Len(ui_calls) =
          Len(CallPlan(uni_match_mode, kw_match_mode, ui_universities, ui_keywords))
    /\ \A n \in 1..Len(ui_calls) : ui_calls[n].result.kind = "none"

\* C20 (as stated): in each of the four mode combinations df_result is a
\* table, never None, when line 88 reads it, and a run whose calls found no
\* author ends in the "no results" branch of lines 167-168 with no error.
C20_NothingFoundShowsNoResults ==
    /\ upc = "combined" => df_result.kind = "table"
    /\ (upc \in {"results", "no_results", "crashed"} /\ FoundNothing) =>
          upc = "no_results" /\ ~error_shown

\* The try block of a university-AND / keyword-OR run ran to its end.
AllOfRunDone ==
    /\ uni_match_mode = "AND"
    /\ kw_match_mode = "OR"
    /\ upc \in {"combined", "results", "no_results", "crashed"}
    /\ ~error_shown
    /\ ui_universities # <<>>

\* The author ids that the n-th per-university run returned.
RunIds(n) == IdsOf(ui_calls[n].result.rows)

\* C21 (as stated): in university-AND / keyword-OR mode an author id that
\* some per-university run returned is in df_result if and only if the run
\* of every listed university returned it.
C21_InResultIffAtAllUniversities ==
    AllOfRunDone =>
        \A id \in UNION {RunIds(n) : n \in 1..Len(ui_calls)} :
            id \in IdsOf(df_result.rows) <=>
                \A n \in 1..Len(ui_calls) : id \in RunIds(n)

\* The half of C21 that holds: an author id in df_result was returned by the
\* run of every listed university.
C21_InResultOnlyIfAtAllUniversities ==
    AllOfRunDone =>
        \A id \in IdsOf(df_result.rows) :
            /\ Len(ui_calls) = Len(ui_universities)
            /\ \A n \in 1..Len(ui_calls) : id \in RunIds(n)

=============================================================================
